---- MODULE Spec2Model ----
(***************************************************************************)
(* Model of the faucet instruction codec, src/program/src/instruction.rs:  *)
(* FaucetInstruction::pack and FaucetInstruction::unpack with their        *)
(* helpers, and the slice primitives they are built from.                  *)
(*                                                                         *)
(* A u64 is held as four 16-bit limbs, least significant limb first,       *)
(* because the model checker's integers are 32 bits wide; to_le_bytes and  *)
(* from_le_bytes do the byte arithmetic on the limbs.                      *)
(***************************************************************************)
EXTENDS Integers, Sequences, FiniteSets, TLC

VARIABLES pc, origin, cmd, input, packed, result

vars == <<pc, origin, cmd, input, packed, result>>

-----------------------------------------------------------------------------
(* Widths fixed by the code *)

ByteBase == 256
PUBKEY_BYTES == 32
U64_BYTES == 8

LimbBase == ByteBase * ByteBase
U64_LIMBS == U64_BYTES \div 2
Byte == 0 .. (ByteBase - 1)

-----------------------------------------------------------------------------
(* Bounds of the exploration *)

MaxHead == 2
MaxFill == 41
MaxTrail == 2

HeadBytes == {0, 1, 2, 3, 255}
TrailBytes == {0, 1, 255}
FillStarts == {0, 1, 255}
FillSteps == {0, 37}
KeyStarts == {1, 0, 250}
KeySteps == {0, 3}

Fill(n, s, d) == [i \in 1 .. n |-> (s + (i - 1) * d) % ByteBase]

SeqsUpTo(S, n) == UNION {[1 .. m -> S] : m \in 0 .. n}

\* a u64 below 2^31 given as a number
U64(n) == <<n % LimbBase, n \div LimbBase, 0, 0>>

Amounts == {U64(0), U64(7), U64(775), U64(900), U64(65536 * 3 + 1),
            <<65535, 65535, 65535, 65535>>, <<513, 1027, 1541, 2055>>}

Keys == {Fill(PUBKEY_BYTES, s, d) : s \in KeyStarts, d \in KeySteps}

RawInputs == {h \o Fill(n, s, d) : h \in SeqsUpTo(HeadBytes, MaxHead),
                                    n \in 0 .. MaxFill,
                                    s \in FillStarts, d \in FillSteps}

Trailing == SeqsUpTo(TrailBytes, MaxTrail) \ {<<>>}

-----------------------------------------------------------------------------
(* Values *)

None == [some |-> FALSE]
Some(v) == [some |-> TRUE, val |-> v]

COption_None == [is_some |-> FALSE]
COption_Some(key) == [is_some |-> TRUE, key |-> key]

InitFaucet(admin, amount) == [tag |-> "InitFaucet", admin |-> admin, amount |-> amount]
MintTokens(amount) == [tag |-> "MintTokens", amount |-> amount]
CloseFaucet == [tag |-> "CloseFaucet"]

FaucetInstruction ==
    {InitFaucet(COption_None, a) : a \in Amounts}
    \cup {InitFaucet(COption_Some(k), a) : k \in Keys, a \in Amounts}
    \cup {MintTokens(a) : a \in Amounts}
    \cup {CloseFaucet}

Ok(v) == [kind |-> "Ok", value |-> v]
InvalidInstruction == [kind |-> "Err", err |-> "InvalidInstruction"]
Panic == [kind |-> "Panic"]

NoCmd == [tag |-> "none"]
NoResult == [kind |-> "none"]

-----------------------------------------------------------------------------
(* Slice and integer primitives *)

\* <[T]>::split_first
split_first(s) == IF Len(s) = 0 THEN None ELSE Some(<<Head(s), Tail(s)>>)

\* <[T]>::get(..n)
get_to(s, n) == IF n <= Len(s) THEN Some(SubSeq(s, 1, n)) ELSE None

\* <[T]>::split_at(mid): panics when mid > len
split_at(s, mid) ==
    IF mid <= Len(s) THEN Ok(<<SubSeq(s, 1, mid), SubSeq(s, mid + 1, Len(s))>>)
    ELSE Panic

\* <[u8; 8]>::try_from(&[u8])
try_into(slice) == IF Len(slice) = U64_BYTES THEN Some(slice) ELSE None

\* Pubkey::new(&[u8]): panics unless the slice is 32 bytes long
Pubkey_new(key) == IF Len(key) = PUBKEY_BYTES THEN Ok(key) ELSE Panic

\* Pubkey::to_bytes
to_bytes(key) == key

\* reads the low four bytes only, as a u32 would
from_le_bytes_u32(b) ==
    [j \in 1 .. U64_LIMBS |-> IF j <= 2 THEN b[2 * j - 1] + ByteBase * b[2 * j] ELSE 0]

from_le_bytes(b) == [j \in 1 .. U64_LIMBS |-> b[2 * j - 1] + ByteBase * b[2 * j]]

\* most significant byte first
to_be_bytes(amount) ==
    [i \in 1 .. U64_BYTES |->
        LET limb == amount[U64_LIMBS - ((i - 1) \div 2)]
        IN  IF (i - 1) % 2 = 0 THEN limb \div ByteBase ELSE limb % ByteBase]

\* most significant byte first within each 16-bit half-word
to_le_bytes_swapped(amount) ==
    [i \in 1 .. U64_BYTES |->
        LET limb == amount[((i - 1) \div 2) + 1]
        IN  IF (i - 1) % 2 = 0 THEN limb \div ByteBase ELSE limb % ByteBase]

to_le_bytes(amount) ==
    [i \in 1 .. U64_BYTES |->
        LET limb == amount[((i - 1) \div 2) + 1]
        IN  IF (i - 1) % 2 = 0 THEN limb % ByteBase ELSE limb \div ByteBase]

-----------------------------------------------------------------------------
(* FaucetInstruction *)

\* without the length guard before split_at
unpack_pubkey_option_noguard(in) ==
    LET sf == split_first(in)
    IN  IF sf.some /\ sf.val[1] = 0 THEN Ok(<<COption_None, sf.val[2]>>)
        ELSE IF sf.some /\ sf.val[1] = 1 THEN
            LET sp == split_at(sf.val[2], PUBKEY_BYTES)
            IN  IF sp.kind = "Panic" THEN Panic
                ELSE LET pk == Pubkey_new(sp.value[1])
                     IN  IF pk.kind = "Panic" THEN Panic
                         ELSE Ok(<<COption_Some(pk.value), sp.value[2]>>)
        ELSE InvalidInstruction

\* any non-zero discriminant means a key is present
unpack_pubkey_option_nonzero(in) ==
    LET sf == split_first(in)
    IN  IF sf.some /\ sf.val[1] = 0 THEN Ok(<<COption_None, sf.val[2]>>)
        ELSE IF sf.some /\ sf.val[1] >= 1 /\ Len(sf.val[2]) >= PUBKEY_BYTES THEN
            LET sp == split_at(sf.val[2], PUBKEY_BYTES)
            IN  IF sp.kind = "Panic" THEN Panic
                ELSE LET pk == Pubkey_new(sp.value[1])
                     IN  IF pk.kind = "Panic" THEN Panic
                         ELSE Ok(<<COption_Some(pk.value), sp.value[2]>>)
        ELSE InvalidInstruction

\* returns the tail before the key instead of the tail after it
unpack_pubkey_option_noadvance(in) ==
    LET sf == split_first(in)
    IN  IF sf.some /\ sf.val[1] = 0 THEN Ok(<<COption_None, sf.val[2]>>)
        ELSE IF sf.some /\ sf.val[1] = 1 /\ Len(sf.val[2]) >= PUBKEY_BYTES THEN
            LET sp == split_at(sf.val[2], PUBKEY_BYTES)
            IN  IF sp.kind = "Panic" THEN Panic
                ELSE LET pk == Pubkey_new(sp.value[1])
                     IN  IF pk.kind = "Panic" THEN Panic
                         ELSE Ok(<<COption_Some(pk.value), sf.val[2]>>)
        ELSE InvalidInstruction

unpack_pubkey_option(in) ==
    LET sf == split_first(in)
    IN  IF sf.some /\ sf.val[1] = 0 THEN Ok(<<COption_None, sf.val[2]>>)
        ELSE IF sf.some /\ sf.val[1] = 1 /\ Len(sf.val[2]) >= PUBKEY_BYTES THEN
            LET sp == split_at(sf.val[2], PUBKEY_BYTES)
            IN  IF sp.kind = "Panic" THEN Panic
                ELSE LET pk == Pubkey_new(sp.value[1])
                     IN  IF pk.kind = "Panic" THEN Panic
                         ELSE Ok(<<COption_Some(pk.value), sp.value[2]>>)
        ELSE InvalidInstruction

\* a short amount field is zero-extended instead of rejected
unpack_amount_lenient(rest) ==
    LET n == IF Len(rest) < U64_BYTES THEN Len(rest) ELSE U64_BYTES
        padded == [i \in 1 .. U64_BYTES |-> IF i <= n THEN rest[i] ELSE 0]
    IN  Ok(from_le_bytes(padded))

\* rest.get(..8).and_then(try_into).map(u64::from_le_bytes).ok_or(InvalidInstruction)
unpack_amount(rest) ==
    LET g == get_to(rest, U64_BYTES)
        a == IF g.some THEN try_into(g.val) ELSE None
    IN  IF a.some THEN Ok(from_le_bytes(a.val)) ELSE InvalidInstruction

\* an unknown tag is taken for CloseFaucet
unpack_default_close(in) ==
    LET sf == split_first(in)
    IN  IF ~sf.some THEN InvalidInstruction
        ELSE LET tag == sf.val[1]
                 rest == sf.val[2]
             IN  CASE tag = 0 ->
                        LET r == unpack_pubkey_option(rest)
                        IN  IF r.kind # "Ok" THEN r
                            ELSE LET a == unpack_amount(r.value[2])
                                 IN  IF a.kind # "Ok" THEN a
                                     ELSE Ok(InitFaucet(r.value[1], a.value))
                   [] tag = 1 ->
                        LET a == unpack_amount(rest)
                        IN  IF a.kind # "Ok" THEN a
                            ELSE Ok(MintTokens(a.value))
                   [] OTHER -> Ok(CloseFaucet)

\* CloseFaucet is accepted only when nothing follows the tag
unpack_strict_close(in) ==
    LET sf == split_first(in)
    IN  IF ~sf.some THEN InvalidInstruction
        ELSE LET tag == sf.val[1]
                 rest == sf.val[2]
             IN  CASE tag = 0 ->
                        LET r == unpack_pubkey_option(rest)
                        IN  IF r.kind # "Ok" THEN r
                            ELSE LET a == unpack_amount(r.value[2])
                                 IN  IF a.kind # "Ok" THEN a
                                     ELSE Ok(InitFaucet(r.value[1], a.value))
                   [] tag = 1 ->
                        LET a == unpack_amount(rest)
                        IN  IF a.kind # "Ok" THEN a
                            ELSE Ok(MintTokens(a.value))
                   [] tag = 2 /\ Len(rest) = 0 -> Ok(CloseFaucet)
                   [] OTHER -> InvalidInstruction

unpack(in) ==
    LET sf == split_first(in)
    IN  IF ~sf.some THEN InvalidInstruction
        ELSE LET tag == sf.val[1]
                 rest == sf.val[2]
             IN  CASE tag = 0 ->
                        LET r == unpack_pubkey_option(rest)
                        IN  IF r.kind # "Ok" THEN r
                            ELSE LET a == unpack_amount(r.value[2])
                                 IN  IF a.kind # "Ok" THEN a
                                     ELSE Ok(InitFaucet(r.value[1], a.value))
                   [] tag = 1 ->
                        LET a == unpack_amount(rest)
                        IN  IF a.kind # "Ok" THEN a
                            ELSE Ok(MintTokens(a.value))
                   [] tag = 2 -> Ok(CloseFaucet)
                   [] OTHER -> InvalidInstruction

\* a present key is written without its discriminant
pack_pubkey_option_nodiscriminant(value, buf) ==
    IF value.is_some THEN buf \o to_bytes(value.key)
    ELSE buf \o <<0>>

pack_pubkey_option(value, buf) ==
    IF value.is_some THEN (buf \o <<1>>) \o to_bytes(value.key)
    ELSE buf \o <<0>>

pack(self) ==
    CASE self.tag = "InitFaucet" ->
            pack_pubkey_option(self.admin, <<0>>) \o to_le_bytes(self.amount)
      [] self.tag = "MintTokens" -> <<1>> \o to_le_bytes(self.amount)
      [] self.tag = "CloseFaucet" -> <<2>>

-----------------------------------------------------------------------------
(* The callers: a producer that builds a command and packs it, a transport *)
(* that delivers the bytes whole, cut short or with bytes after them, or   *)
(* delivers arbitrary bytes, and the dispatcher that unpacks them.         *)

Init ==
    /\ packed = <<>>
    /\ result = NoResult
    /\ \/ /\ pc = "construct"
          /\ origin = "cmd"
          /\ cmd \in FaucetInstruction
          /\ input = <<>>
       \/ /\ pc = "receive"
          /\ origin = "raw"
          /\ cmd = NoCmd
          /\ input \in RawInputs

Pack ==
    /\ pc = "construct"
    /\ packed' = pack(cmd)
    /\ input' = pack(cmd)
    /\ origin' = "packed"
    /\ pc' = "receive"
    /\ UNCHANGED <<cmd, result>>

Truncate(k) ==
    /\ pc = "receive"
    /\ origin = "packed"
    /\ k < Len(input)
    /\ input' = SubSeq(input, 1, k)
    /\ origin' = "truncated"
    /\ UNCHANGED <<pc, cmd, packed, result>>

Extend(t) ==
    /\ pc = "receive"
    /\ origin = "packed"
    /\ input' = input \o t
    /\ origin' = "extended"
    /\ UNCHANGED <<pc, cmd, packed, result>>

Unpack ==
    /\ pc = "receive"
    /\ result' = unpack(input)
    /\ pc' = "done"
    /\ UNCHANGED <<origin, cmd, input, packed>>

Next ==
    \/ Pack
    \/ \E k \in 0 .. (1 + PUBKEY_BYTES + U64_BYTES) : Truncate(k)
    \/ \E t \in Trailing : Extend(t)
    \/ Unpack

Spec == Init /\ [][Next]_vars

-----------------------------------------------------------------------------
(* Properties *)

IsPrefix(p, s) == Len(p) <= Len(s) /\ SubSeq(s, 1, Len(p)) = p

WasPacked == origin \in {"packed", "truncated", "extended"}

IsU64(a) == a \in [1 .. U64_LIMBS -> 0 .. (LimbBase - 1)]

\* byte i (0 = least significant) of a u64
ByteOf(a, i) == (a[(i \div 2) + 1] \div (IF i % 2 = 0 THEN 1 ELSE ByteBase)) % ByteBase

\* bytes is the 8-byte little-endian encoding of a: eight bytes whose value,
\* least significant first, is a
LE8(bytes, a) ==
    /\ Len(bytes) = 8
    /\ \A i \in 1 .. 8 : bytes[i] \in Byte
    /\ \A j \in 1 .. 4 : bytes[2 * j - 1] + 256 * bytes[2 * j] = a[j]

\* the u64 a is the little-endian value of the 8 bytes of b after offset off
AmountAt(a, b, off) ==
    /\ Len(b) >= off + 8
    /\ IsU64(a)
    /\ \A i \in 0 .. 7 : ByteOf(a, i) = b[off + 1 + i]

IsFaucetInstruction(c) ==
    \/ c = CloseFaucet
    \/ /\ DOMAIN c = {"tag", "amount"}
       /\ c.tag = "MintTokens"
       /\ IsU64(c.amount)
    \/ /\ DOMAIN c = {"tag", "admin", "amount"}
       /\ c.tag = "InitFaucet"
       /\ IsU64(c.amount)
       /\ \/ c.admin = COption_None
          \/ /\ DOMAIN c.admin = {"is_some", "key"}
             /\ c.admin.is_some
             /\ c.admin.key \in [1 .. 32 -> Byte]

\* C1: unpacking the bytes pack produced for a command succeeds and returns
\* a value equal to that command.
C1_RoundTrip ==
    (pc = "done" /\ origin = "packed") => result = Ok(cmd)

C1_Witness ==
    /\ pc = "done" /\ origin = "packed"
    /\ cmd.tag = "InitFaucet" /\ cmd.admin.is_some
    /\ cmd.amount = <<513, 1027, 1541, 2055>>
    /\ result.kind = "Ok"

\* C2: pack produces exactly the byte layout of each command: [0, 0] ++ LE8
\* (10 bytes), [0, 1] ++ key ++ LE8 (42 bytes), [1] ++ LE8 (9 bytes), [2].
C2_PackLayout ==
    WasPacked =>
        CASE cmd.tag = "InitFaucet" /\ ~cmd.admin.is_some ->
                /\ Len(packed) = 10
                /\ packed[1] = 0 /\ packed[2] = 0
                /\ LE8(SubSeq(packed, 3, 10), cmd.amount)
          [] cmd.tag = "InitFaucet" /\ cmd.admin.is_some ->
                /\ Len(packed) = 42
                /\ packed[1] = 0 /\ packed[2] = 1
                /\ \A i \in 1 .. 32 : packed[2 + i] = cmd.admin.key[i]
                /\ LE8(SubSeq(packed, 35, 42), cmd.amount)
          [] cmd.tag = "MintTokens" ->
                /\ Len(packed) = 9
                /\ packed[1] = 1
                /\ LE8(SubSeq(packed, 2, 9), cmd.amount)
          [] cmd.tag = "CloseFaucet" -> packed = <<2>>

C2_Witness ==
    /\ WasPacked
    /\ cmd.tag = "InitFaucet" /\ cmd.admin.is_some
    /\ cmd.admin.key[2] # cmd.admin.key[1]
    /\ cmd.amount = U64(900)
    /\ Len(packed) = 42

\* C3: a successful unpack returns the positional decode of its input: the
\* tag selects the variant, the key is bytes 3..34 verbatim, and the amount
\* is the little-endian value of the 8 bytes right after the optional key.
C3_PositionalDecode ==
    (pc = "done" /\ result.kind = "Ok") =>
        CASE input[1] = 1 ->
                /\ result.value.tag = "MintTokens"
                /\ AmountAt(result.value.amount, input, 1)
          [] input[1] = 0 /\ input[2] = 0 ->
                /\ result.value.tag = "InitFaucet"
                /\ result.value.admin = COption_None
                /\ AmountAt(result.value.amount, input, 2)
          [] input[1] = 0 /\ input[2] = 1 ->
                /\ result.value.tag = "InitFaucet"
                /\ result.value.admin = COption_Some(SubSeq(input, 3, 34))
                /\ AmountAt(result.value.amount, input, 34)
          [] OTHER -> result.value = CloseFaucet

C3_Witness ==
    /\ pc = "done" /\ origin = "raw" /\ result.kind = "Ok"
    /\ Len(input) >= 42
    /\ input[1] = 0 /\ input[2] = 1
    /\ SubSeq(input, 3, 10) # SubSeq(input, 35, 42)

\* C4: unpack fails with InvalidInstruction on every proper prefix of the
\* bytes pack produced.
C4_TruncationRejected ==
    (pc = "done" /\ origin = "truncated") => result = InvalidInstruction

C4_Witness ==
    /\ pc = "done" /\ origin = "truncated"
    /\ cmd.tag = "InitFaucet" /\ cmd.admin.is_some
    /\ Len(input) = 38
    /\ result = InvalidInstruction

\* C5: unpack fails with InvalidInstruction on the empty input and on every
\* input whose first byte is 3 or more, whatever follows.
C5_NoValidTag ==
    (pc = "done" /\ (Len(input) = 0 \/ input[1] >= 3)) => result = InvalidInstruction

C5_Witness ==
    /\ pc = "done"
    /\ Len(input) >= 42 /\ input[1] = 3
    /\ result = InvalidInstruction

\* C6: unpack fails with InvalidInstruction on every input [0, d, ...] whose
\* admin discriminant d is neither 0 nor 1, whatever follows.
C6_InvalidDiscriminant ==
    (pc = "done" /\ Len(input) >= 2 /\ input[1] = 0 /\ input[2] \notin {0, 1})
        => result = InvalidInstruction

C6_Witness ==
    /\ pc = "done"
    /\ Len(input) >= 42 /\ input[1] = 0 /\ input[2] = 2
    /\ result = InvalidInstruction

\* C7: unpack returns CloseFaucet on every input whose first byte is 2,
\* whatever bytes follow the tag.
C7_CloseTolerance ==
    (pc = "done" /\ Len(input) >= 1 /\ input[1] = 2) => result = Ok(CloseFaucet)

C7_Witness ==
    /\ pc = "done"
    /\ Len(input) > 9 /\ input[1] = 2 /\ input[2] # 0
    /\ result = Ok(CloseFaucet)

\* C8 as stated: pack(MintTokens{amount: 900}) is the 8-byte sequence
\* [1, 132, 3, 0, 0, 0, 0, 0].
C8_AsStated ==
    (WasPacked /\ cmd = MintTokens(U64(900)))
        => packed = <<1, 132, 3, 0, 0, 0, 0, 0>>

\* C8 amended: pack(MintTokens{amount: 900}) is the 9-byte sequence
\* [1, 132, 3, 0, 0, 0, 0, 0, 0]: the tag and all 8 bytes of the amount.
C8_MintScenario ==
    (WasPacked /\ cmd = MintTokens(U64(900)))
        => packed = <<1, 132, 3, 0, 0, 0, 0, 0, 0>>

C8_Witness ==
    /\ WasPacked /\ cmd = MintTokens(U64(900))
    /\ Len(packed) = 9

\* C9: unpack ends in one of two outcomes on every input, a fully populated
\* FaucetInstruction or the error InvalidInstruction; no slice access falls
\* outside the input (no panic) and no other error is returned.
C9_Total ==
    pc = "done" =>
        \/ result.kind = "Ok" /\ IsFaucetInstruction(result.value)
        \/ result = InvalidInstruction

C9_Witness ==
    /\ pc = "done" /\ origin = "raw"
    /\ Len(input) \in 3 .. 33 /\ input[1] = 0 /\ input[2] = 1
    /\ result = InvalidInstruction

\* C10: when unpack succeeds with command c, pack(c) is a prefix of the
\* input; and unpack(pack(c) ++ t) = c for every trailing t.
C10_CanonicalPrefix ==
    pc = "done" =>
        /\ result.kind = "Ok" => IsPrefix(pack(result.value), input)
        /\ origin \in {"packed", "extended"} => result = Ok(cmd)

C10_Witness ==
    /\ pc = "done" /\ origin = "extended"
    /\ cmd.tag = "MintTokens" /\ cmd.amount = <<65535, 65535, 65535, 65535>>
    /\ Len(input) = 11
    /\ result = Ok(cmd)

====
